---- MODULE Spec2Model ----
(***************************************************************************)
(* JSONFS: an in-memory, path-indexed filesystem (src/main.py).            *)
(*                                                                         *)
(* A path is a sequence of one-character strings.  A byte string is a      *)
(* sequence of byte names: "h" is an ASCII byte, "xff" a byte that is not  *)
(* valid UTF-8.  The text produced by json.dumps is one opaque chunk: a    *)
(* one-element byte string holding the canonical print of the document.    *)
(* Python dictionaries are functions; the iteration order of a dictionary  *)
(* is not modelled, so readdir returns a set.  time() always reads Time.   *)
(* The model starts from JSONFS(root_blob, create_file_system=True): DATA, *)
(* EXTRAATTRS and LOOKUPMAP are defaultdicts, ATTRS is a plain dict.       *)
(* A handler is an operator from the object to the object it leaves, the   *)
(* value it returns and the exception it ends in ("ok" when none); a       *)
(* handler that raises keeps the assignments made before the raise.        *)
(***************************************************************************)
EXTENDS Integers, Sequences, FiniteSets, TLC

VARIABLES attrs, data, extra_attrs, lookup_map, fd, fsdata_is, last, nops

vars == <<attrs, data, extra_attrs, lookup_map, fd, fsdata_is, last, nops>>

(* ------------------------------ bounds -------------------------------- *)
MaxOps == 2
MaxOff == 2
MaxLen == 2

(* ----------------------------- constants ------------------------------ *)
FSDATA == <<"_", "_", "F", "S", "D", "A", "T", "A", "_", "_">>
ROOT == <<>>
SEP == "/"
FILES == "FILES"
FOLDERS == "FOLDERS"
None == "None"
S_IFDIR == 16384
S_IFLNK == 40960
S_IFREG == 32768
DEFAULT_UMASK == 18
FSDATA_MODE == 33204
Time == 0
TYPE_MASK == 258048

(* ------------------------- dictionary helpers ------------------------- *)
Put(d, k, v) == [x \in (DOMAIN d) \cup {k} |-> IF x = k THEN v ELSE d[x]]

Del(d, k) == [x \in (DOMAIN d) \ {k} |-> d[x]]

Has(d, k) == k \in DOMAIN d

(* defaultdict(bytes).__getitem__: the value, or empty bytes when absent   *)
Get(d, k) == IF k \in DOMAIN d THEN d[k] ELSE <<>>

(* the entity type of a LOOKUPMAP entry, None when the entry is missing    *)
Get_type(d, k) == IF k \in DOMAIN d THEN d[k] ELSE None

Min(a, b) == IF a < b THEN a ELSE b

(* a | b and a & b on non-negative integers                                *)
RECURSIVE ior(_, _)
ior(a, b) == IF a = 0 THEN b
             ELSE IF b = 0 THEN a
             ELSE (IF a % 2 = 1 \/ b % 2 = 1 THEN 1 ELSE 0) + 2 * ior(a \div 2, b \div 2)

RECURSIVE iand(_, _)
iand(a, b) == IF a = 0 \/ b = 0 THEN 0
              ELSE (IF a % 2 = 1 /\ b % 2 = 1 THEN 1 ELSE 0) + 2 * iand(a \div 2, b \div 2)

(* b[lo:hi] for 0 <= lo, 0 <= hi                                           *)
Slice(b, lo, hi) == SubSeq(b, lo + 1, Min(hi, Len(b)))

(* ------------------------------ paths --------------------------------- *)
process_output(path) ==
  LET output == IF path = <<>> THEN path
                ELSE IF path[Len(path)] = SEP THEN SubSeq(path, 1, Len(path) - 1)
                ELSE path
  IN  IF output = <<>> THEN output
      ELSE IF output[1] = SEP THEN SubSeq(output, 2, Len(output))
      ELSE output

(* last index k of p with (p[k] = c) = eq, 0 when there is none: rfind    *)
(* for eq = TRUE, the end of rstrip for eq = FALSE                         *)
LastIndex(p, c, eq) ==
  LET idx == {k \in 1..Len(p) : (p[k] = c) = eq}
  IN  IF idx = {} THEN 0 ELSE CHOOSE k \in idx : \A j \in idx : j <= k

(* posixpath.dirname                                                       *)
dirname(p) ==
  LET i == LastIndex(p, SEP, TRUE)
      head == SubSeq(p, 1, i)
  IN  IF head # <<>> /\ LastIndex(head, SEP, FALSE) # 0
        THEN SubSeq(head, 1, LastIndex(head, SEP, FALSE))
        ELSE head

get_parent_dir(path) == dirname(dirname(path))

(* ---------------------------- the object ------------------------------ *)
Self == [attrs |-> attrs, data |-> data, extra_attrs |-> extra_attrs,
         lookup_map |-> lookup_map, fd |-> fd, fsdata_is |-> fsdata_is]

(* A store keeps the module constant FSDATA as its key object only while   *)
(* that key is never popped: a key a host call inserts is another object.  *)
Store(s, n) == IF n = "ATTRS" THEN s.attrs
               ELSE IF n = "DATA" THEN s.data
               ELSE IF n = "EXTRAATTRS" THEN s.extra_attrs
               ELSE s.lookup_map

Out(s, ret, err) ==
  [self |-> [s EXCEPT !.fsdata_is = {n \in s.fsdata_is : Has(Store(s, n), FSDATA)}],
   ret |-> ret, err |-> err]

Return(s, ret) == Out(s, ret, "ok")

Raise(s, err) == Out(s, None, err)

SetField(rec, k, v) == [f \in (DOMAIN rec) \cup {k} |-> IF f = k THEN v ELSE rec[f]]

(* --------------------------- snapshot text ---------------------------- *)
(* bytes.decode('UTF-8') succeeds exactly when no byte is invalid          *)
IsUTF8(b) == \A i \in 1..Len(b) : b[i] # "xff"

(* A text (a Python str) is <<"str">> followed by its characters, and a    *)
(* one-element list holding a text is <<"list">> followed by the text's    *)
(* characters: neither is equal to any byte string.                        *)
Str(chars) == <<"str">> \o chars

List1(chars) == <<"list">> \o chars

(* the value of a byte and the byte of a value                             *)
ord(b) == IF b = "h" THEN 104 ELSE 255

chr(n) == IF n = 104 THEN "h" ELSE IF n = 255 THEN "xff" ELSE ToString(n)

B64Alphabet ==
  <<"A", "B", "C", "D", "E", "F", "G", "H", "I", "J", "K", "L", "M", "N", "O", "P",
    "Q", "R", "S", "T", "U", "V", "W", "X", "Y", "Z", "a", "b", "c", "d", "e", "f",
    "g", "h", "i", "j", "k", "l", "m", "n", "o", "p", "q", "r", "s", "t", "u", "v",
    "w", "x", "y", "z", "0", "1", "2", "3", "4", "5", "6", "7", "8", "9", "+", "/">>

(* base64.b64encode: three bytes make four characters, "=" pads the end    *)
RECURSIVE b64encode(_)
b64encode(b) ==
  IF Len(b) = 0 THEN <<>>
  ELSE LET n == Min(3, Len(b))
           at(i) == IF i <= n THEN ord(b[i]) ELSE 0
           v == at(1) * 65536 + at(2) * 256 + at(3)
           c(i) == B64Alphabet[((v \div (64 ^ (3 - i))) % 64) + 1]
       IN  <<c(0), c(1), IF n >= 2 THEN c(2) ELSE "=", IF n >= 3 THEN c(3) ELSE "=">>
             \o b64encode(SubSeq(b, n + 1, Len(b)))

(* base64.b64decode: four characters make three bytes less the padding     *)
RECURSIVE b64decode(_)
b64decode(t) ==
  IF Len(t) < 4 THEN <<>>
  ELSE LET val(i) == IF t[i] = "=" THEN 0
                     ELSE (CHOOSE j \in 1..64 : B64Alphabet[j] = t[i]) - 1
           v == val(1) * 262144 + val(2) * 4096 + val(3) * 64 + val(4)
           n == IF t[3] = "=" THEN 1 ELSE IF t[4] = "=" THEN 2 ELSE 3
           three == <<chr(v \div 65536), chr((v \div 256) % 256), chr(v % 256)>>
       IN  SubSeq(three, 1, n) \o b64decode(SubSeq(t, 5, Len(t)))

(* one value of DATA or EXTRAATTRS as dump_to_json writes it: bare text,   *)
(* or a one-element list holding the Base64 text of the bytes              *)
dump_value(b) == IF IsUTF8(b) THEN Str(b) ELSE List1(b64encode(b))

(* the document dump_to_json hands to json.dumps                           *)
obj_out(s) ==
  LET keys(n) == {k \in DOMAIN Store(s, n) : ~(k = FSDATA /\ n \in s.fsdata_is)}
  IN  [FSMETA |-> [DEFAULTUMASK |-> DEFAULT_UMASK],
       ATTRS |-> [k \in keys("ATTRS") |-> s.attrs[k]],
       LOOKUPMAP |-> [k \in keys("LOOKUPMAP") |-> [ENTITYTYPE |-> s.lookup_map[k]]],
       DATA |-> [k \in keys("DATA") |-> dump_value(s.data[k])],
       EXTRAATTRS |-> [k \in keys("EXTRAATTRS") |-> dump_value(s.extra_attrs[k])]]

dump_to_json(s) == <<ToString(obj_out(s))>>

(* load_from_json_file on the document json_load reads back from the text  *)
(* of json.dumps: only the values of DATA are turned back into bytes       *)
load_value(v) == IF Head(v) # "list" THEN Tail(v) ELSE b64decode(Tail(v))

load_from_json_file(doc) ==
  [top_key \in DOMAIN doc |->
     IF top_key # "DATA" THEN doc[top_key]
     ELSE [inner_key \in DOMAIN doc.DATA |-> load_value(doc.DATA[inner_key])]]

(* ---------------------------- operations ------------------------------ *)
mkfs ==
  [attrs |-> Put(<<>>, ROOT, [st_mode |-> ior(S_IFDIR, DEFAULT_UMASK), st_ctime |-> Time,
                              st_mtime |-> Time, st_atime |-> Time, st_nlink |-> 2]),
   data |-> <<>>,
   extra_attrs |-> <<>>,
   lookup_map |-> Put(<<>>, ROOT, FOLDERS),
   fd |-> 0,
   fsdata_is |-> {}]

chmod(s, path0, mode) ==
  LET path == process_output(path0)
  IN  IF ~Has(s.attrs, path) THEN Raise(s, "KeyError")
      ELSE Return([s EXCEPT !.attrs = Put(s.attrs, path,
                     SetField(s.attrs[path], "st_mode",
                              ior(iand(s.attrs[path].st_mode, TYPE_MASK), mode)))], 0)

chown(s, path0, uid, gid) ==
  LET path == process_output(path0)
  IN  IF ~Has(s.attrs, path) THEN Raise(s, "KeyError")
      ELSE Return([s EXCEPT !.attrs = Put(s.attrs, path,
                     SetField(SetField(s.attrs[path], "st_uid", uid), "st_gid", gid))], 0)

(* is_FSDATA: the argument is the module constant FSDATA itself, which is  *)
(* so only for the call the constructor makes                              *)
create(s, path0, mode, is_FSDATA) ==
  LET path == process_output(path0)
  IN  IF Has(s.attrs, path) /\ ~is_FSDATA THEN Raise(s, "EINVAL")
      ELSE Return([s EXCEPT
                     !.attrs = Put(s.attrs, path,
                                   [st_mode |-> ior(S_IFREG, mode), st_nlink |-> 1, st_size |-> 0,
                                    st_ctime |-> Time, st_mtime |-> Time, st_atime |-> Time]),
                     !.data = Put(s.data, path, <<>>),
                     !.lookup_map = Put(s.lookup_map, path, FILES),
                     !.fd = s.fd + 1,
                     !.fsdata_is = IF is_FSDATA
                                     THEN s.fsdata_is \cup
                                          {n \in {"ATTRS", "DATA", "LOOKUPMAP"} :
                                             ~Has(Store(s, n), path)}
                                     ELSE s.fsdata_is],
                  s.fd + 1)

(* write with the offset forgotten: the content becomes the data           *)
write_ignores_offset(s, path0, buf, offset) ==
  LET path == process_output(path0)
      s1 == [s EXCEPT !.data = Put(s.data, path, buf)]
  IN  IF ~Has(s1.attrs, path) THEN Raise(s1, "KeyError")
      ELSE Return([s1 EXCEPT !.attrs = Put(s1.attrs, path,
                      SetField(s1.attrs[path], "st_size", Len(s1.data[path])))],
                  Len(buf))

write(s, path0, buf, offset) ==
  LET path == process_output(path0)
      s1 == [s EXCEPT !.data = Put(s.data, path, Slice(Get(s.data, path), 0, offset) \o buf)]
  IN  IF ~Has(s1.attrs, path) THEN Raise(s1, "KeyError")
      ELSE Return([s1 EXCEPT !.attrs = Put(s1.attrs, path,
                      SetField(s1.attrs[path], "st_size", Len(s1.data[path])))],
                  Len(buf))

(* getattr without the regeneration of the export content                  *)
getattr_no_dump(s, path0) ==
  LET path == process_output(path0)
  IN  IF ~Has(s.attrs, path) THEN Raise(s, "ENOENT")
      ELSE Return(s, s.attrs[path])

getattr(s, path0) ==
  LET path == process_output(path0)
      w == IF path = FSDATA THEN write(s, path, dump_to_json(s), 0) ELSE Return(s, 0)
  IN  IF w.err # "ok" THEN w
      ELSE IF ~Has(w.self.attrs, path) THEN Raise(w.self, "ENOENT")
      ELSE Return(w.self, w.self.attrs[path])

getxattr(s, path0) ==
  LET path == process_output(path0)
  IN  IF ~Has(s.attrs, path) THEN Raise(s, "ENOENT")
      ELSE Return([s EXCEPT !.extra_attrs = Put(s.extra_attrs, path, Get(s.extra_attrs, path))],
                  Get(s.extra_attrs, path))

mkdir(s, path0, mode) ==
  LET path == process_output(path0)
      s1 == [s EXCEPT !.attrs = Put(s.attrs, path,
                         [st_mode |-> ior(S_IFDIR, mode), st_nlink |-> 2, st_size |-> 0,
                          st_ctime |-> Time, st_mtime |-> Time, st_atime |-> Time])]
      parent == process_output(get_parent_dir(path))
  IN  IF Has(s.attrs, path) THEN Raise(s, "EEXIST")
      ELSE IF ~Has(s1.attrs, parent) THEN Raise(s1, "KeyError")
      ELSE Return([s1 EXCEPT
                     !.attrs = Put(s1.attrs, parent,
                                   SetField(s1.attrs[parent], "st_nlink",
                                            s1.attrs[parent].st_nlink + 1)),
                     !.lookup_map = Put(s1.lookup_map, path, FOLDERS)], 0)

(* open that hands out the next number without keeping it                 *)
open_keeps_fd(s, path0) == Return(s, s.fd + 1)

open(s, path0) == Return([s EXCEPT !.fd = s.fd + 1], s.fd + 1)

read(s, path0, size, offset) ==
  LET path == process_output(path0)
  IN  Return([s EXCEPT !.data = Put(s.data, path, Get(s.data, path))],
             Slice(Get(s.data, path), offset, offset + size))

readdir(s, path0) ==
  LET path == process_output(path0)
  IN  Return(s, {<<".">>, <<".", ".">>} \cup
                {process_output(full_path) : full_path \in
                   {k \in DOMAIN s.attrs :
                      LET out_item == process_output(k)
                      IN  /\ out_item # <<>>
                          /\ out_item # path
                          /\ Slice(out_item, 0, Len(path)) = path}})

(* rename without the check of the new path                               *)
rename_over(s, old0, new0) ==
  LET old == process_output(old0)
      new == process_output(new0)
      s1 == [s EXCEPT !.attrs = Put(Del(s.attrs, old), new, s.attrs[old])]
  IN  IF ~Has(s.attrs, old) THEN Raise(s, "ENOENT")
      ELSE Raise(s1, "KeyError")

rename(s, old0, new0) ==
  LET old == process_output(old0)
      new == process_output(new0)
      s1 == [s EXCEPT !.attrs = Put(Del(s.attrs, old), new, s.attrs[old])]
      s2 == [s1 EXCEPT !.extra_attrs = Put(Del(s1.extra_attrs, old), new, s1.extra_attrs[old])]
      s3 == [s2 EXCEPT !.extra_attrs = Put(Del(s2.extra_attrs, old), new, s2.extra_attrs[old])]
      s4 == [s3 EXCEPT !.extra_attrs = Del(s3.extra_attrs, old),
                       !.data = Put(s3.data, new, s3.extra_attrs[old])]
  IN  IF ~Has(s.attrs, old) THEN Raise(s, "ENOENT")
      ELSE IF Has(s.attrs, new) THEN Raise(s, "EEXIST")
      ELSE IF ~Has(s1.extra_attrs, old) THEN Raise(s1, "KeyError")
      ELSE IF ~Has(s2.extra_attrs, old) THEN Raise(s2, "KeyError")
      ELSE IF ~Has(s3.extra_attrs, old) THEN Raise(s3, "KeyError")
      ELSE Return(s4, 0)

rmdir(s, path0) ==
  LET path == process_output(path0)
      s1 == [s EXCEPT !.attrs = Del(s.attrs, path)]
      s2 == [s1 EXCEPT !.lookup_map = Del(s1.lookup_map, path)]
      s3 == [s2 EXCEPT !.extra_attrs = Del(s2.extra_attrs, path)]
      s4 == [s3 EXCEPT !.data = Del(s3.data, path)]
      parent == get_parent_dir(path)
  IN  IF ~Has(s.attrs, path) THEN Raise(s, "KeyError")
      ELSE IF ~Has(s1.lookup_map, path) THEN Raise(s1, "KeyError")
      ELSE IF ~Has(s2.extra_attrs, path) THEN Raise(s2, "KeyError")
      ELSE IF ~Has(s3.data, path) THEN Raise(s3, "KeyError")
      ELSE IF ~Has(s4.attrs, parent) THEN Raise(s4, "KeyError")
      ELSE Return([s4 EXCEPT !.attrs = Put(s4.attrs, parent,
                      SetField(s4.attrs[parent], "st_nlink", s4.attrs[parent].st_nlink - 1))],
                  None)

statfs(s, path0) ==
  LET path == process_output(path0)
  IN  IF ~Has(s.attrs, path) THEN Raise(s, "KeyError") ELSE Return(s, s.attrs[path])

(* lookup_map.setdefault(path, dict()).setdefault(ENTITY_TYPE)             *)
get_entity_type(s, path0) ==
  LET path == process_output(path0)
  IN  Return([s EXCEPT !.lookup_map = Put(s.lookup_map, path, Get_type(s.lookup_map, path))],
             Get_type(s.lookup_map, path))

set_entity_type(s, path0, entity_type) ==
  [s EXCEPT !.lookup_map = Put(s.lookup_map, process_output(path0), entity_type)]

symlink(s, target, source) ==
  LET s1 == [s EXCEPT !.attrs = Put(s.attrs, target,
                         [st_mode |-> ior(S_IFLNK, 511), st_nlink |-> 1,
                          st_size |-> Len(source)])]
      ent_type == get_entity_type(s1, source)
  IN  Return(set_entity_type(ent_type.self, target, ent_type.ret), 0)

truncate(s, path0, length) ==
  LET path == process_output(path0)
      s1 == [s EXCEPT !.data = Put(s.data, path, Slice(Get(s.data, path), 0, length))]
  IN  IF ~Has(s.attrs, path) THEN Raise(s, "ENOENT")
      ELSE Return([s1 EXCEPT !.attrs = Put(s1.attrs, path,
                      SetField(s1.attrs[path], "st_size", length))], 0)

unlink(s, path0) ==
  LET path == process_output(path0)
      s1 == [s EXCEPT !.data = Del(s.data, path)]
      s2 == [s1 EXCEPT !.attrs = Del(s1.attrs, path)]
      s3 == [s2 EXCEPT !.extra_attrs = Del(s2.extra_attrs, path)]
      s4 == [s3 EXCEPT !.lookup_map = Del(s3.lookup_map, path)]
  IN  IF ~Has(s.attrs, path) THEN Raise(s, "ENOENT")
      ELSE IF ~Has(s.data, path) THEN Raise(s, "KeyError")
      ELSE IF ~Has(s2.extra_attrs, path) THEN Raise(s2, "KeyError")
      ELSE IF ~Has(s3.lookup_map, path) THEN Raise(s3, "KeyError")
      ELSE Return(s4, 0)

(* times = None, written <<>>, takes the current time for both stamps      *)
utimens(s, path0, times) ==
  LET path == process_output(path0)
      atime == IF times = <<>> THEN Time ELSE times[1]
      mtime == IF times = <<>> THEN Time ELSE times[2]
  IN  IF ~Has(s.attrs, path) THEN Raise(s, "ENOENT")
      ELSE Return([s EXCEPT !.attrs = Put(s.attrs, path,
                      SetField(SetField(s.attrs[path], "st_atime", atime), "st_mtime", mtime))], 0)

(* JSONFS.__init__ with create_file_system = True                          *)
init == create(mkfs, FSDATA, FSDATA_MODE, TRUE).self

(* ------------------------------ inputs -------------------------------- *)
(* paths as the host hands them over: absolute, no trailing separator      *)
Paths == {<<"/">>, <<"/", "a">>, <<"/", "a", "b">>, <<"/", "a", "/", "b">>, <<"/">> \o FSDATA}

(* the text a symbolic link points to                                      *)
Sources == {<<"a">>, <<"/", "a", "b">>}

Modes == {420}

Bufs == {<<"h">>, <<"h", "xff">>}

Offsets == 0..MaxOff

Sizes == 1..MaxOff

(* --------------------------- state machine ---------------------------- *)
Init ==
  /\ attrs = init.attrs
  /\ data = init.data
  /\ extra_attrs = init.extra_attrs
  /\ lookup_map = init.lookup_map
  /\ fd = init.fd
  /\ fsdata_is = init.fsdata_is
  /\ last = [op |-> "init", err |-> "ok", path |-> <<>>, path2 |-> <<>>, n |-> 0,
             offset |-> 0, buf |-> <<>>, ret_int |-> init.fd, ret_bytes |-> <<>>,
             ret_names |-> {}]
  /\ nops = 0

(* the arguments of a call: unused ones are <<>> or 0                      *)
Args(path, path2, n, offset, buf) ==
  [path |-> path, path2 |-> path2, n |-> n, offset |-> offset, buf |-> buf]

(* One call of the host: r is what the handler did.  last records the call *)
(* and what it returned: ret_int for a number, ret_bytes for bytes,        *)
(* ret_names for a listing (an attribute record returned by getattr or     *)
(* statfs is attrs[path] of the new state).                                *)
Step(op, a, r, kind) ==
  /\ nops < MaxOps
  /\ attrs' = r.self.attrs
  /\ data' = r.self.data
  /\ extra_attrs' = r.self.extra_attrs
  /\ lookup_map' = r.self.lookup_map
  /\ fd' = r.self.fd
  /\ fsdata_is' = r.self.fsdata_is
  /\ last' = [op |-> op, err |-> r.err, path |-> a.path, path2 |-> a.path2, n |-> a.n,
              offset |-> a.offset, buf |-> a.buf,
              ret_int |-> IF r.err = "ok" /\ kind = "int" THEN r.ret ELSE -1,
              ret_bytes |-> IF r.err = "ok" /\ kind = "bytes" THEN r.ret ELSE <<>>,
              ret_names |-> IF r.err = "ok" /\ kind = "names" THEN r.ret ELSE {}]
  /\ nops' = nops + 1

Chmod == \E p \in Paths, m \in Modes :
           Step("chmod", Args(p, <<>>, m, 0, <<>>), chmod(Self, p, m), "int")

Chown == \E p \in Paths : Step("chown", Args(p, <<>>, 1, 0, <<>>), chown(Self, p, 1, 1), "int")

Create == \E p \in Paths, m \in Modes :
            Step("create", Args(p, <<>>, m, 0, <<>>), create(Self, p, m, FALSE), "int")

Getattr == \E p \in Paths : Step("getattr", Args(p, <<>>, 0, 0, <<>>), getattr(Self, p), "stat")

Getxattr == \E p \in Paths :
              Step("getxattr", Args(p, <<>>, 0, 0, <<>>), getxattr(Self, p), "bytes")

Mkdir == \E p \in Paths, m \in Modes :
           Step("mkdir", Args(p, <<>>, m, 0, <<>>), mkdir(Self, p, m), "int")

Open == \E p \in Paths : Step("open", Args(p, <<>>, 0, 0, <<>>), open(Self, p), "int")

Read == \E p \in Paths, n \in Sizes, o \in Offsets :
          Step("read", Args(p, <<>>, n, o, <<>>), read(Self, p, n, o), "bytes")

Readdir == \E p \in Paths : Step("readdir", Args(p, <<>>, 0, 0, <<>>), readdir(Self, p), "names")

Rename == \E p \in Paths, q \in Paths :
            Step("rename", Args(p, q, 0, 0, <<>>), rename(Self, p, q), "int")

Rmdir == \E p \in Paths : Step("rmdir", Args(p, <<>>, 0, 0, <<>>), rmdir(Self, p), "none")

Statfs == \E p \in Paths : Step("statfs", Args(p, <<>>, 0, 0, <<>>), statfs(Self, p), "stat")

Symlink == \E p \in Paths, q \in Sources :
             Step("symlink", Args(p, q, 0, 0, <<>>), symlink(Self, p, q), "int")

Truncate == \E p \in Paths, n \in Offsets :
              Step("truncate", Args(p, <<>>, n, 0, <<>>), truncate(Self, p, n), "int")

Unlink == \E p \in Paths : Step("unlink", Args(p, <<>>, 0, 0, <<>>), unlink(Self, p), "int")

(* n = 0 stands for times = None, n = 1 for times = (1, 1)                 *)
Utimens == \E p \in Paths, t \in {0, 1} :
             Step("utimens", Args(p, <<>>, t, 0, <<>>),
                  utimens(Self, p, IF t = 0 THEN <<>> ELSE <<t, t>>), "int")

Write == \E p \in Paths, b \in Bufs, o \in Offsets :
           Step("write", Args(p, <<>>, 0, o, b), write(Self, p, b, o), "int")

Next ==
  \/ Chmod \/ Chown \/ Create \/ Getattr \/ Getxattr \/ Mkdir \/ Open \/ Read
  \/ Readdir \/ Rename \/ Rmdir \/ Statfs \/ Symlink \/ Truncate \/ Unlink
  \/ Utimens \/ Write

Spec == Init /\ [][Next]_vars

(* ------------------------- the snapshot codec ------------------------- *)
(* canonical paths of a snapshot, none of them the export path             *)
CodecPaths == {<<"a">>, <<"a", "/", "b">>}

(* the byte strings of at most MaxLen bytes, valid UTF-8 and not           *)
ByteStrings == UNION {[1..n -> {"h", "xff"}] : n \in 0..MaxLen}

(* A snapshot to encode: the root, and a file for every path that has      *)
(* content or an extended attribute.                                       *)
InitCodec ==
  /\ \E D \in SUBSET CodecPaths, X \in SUBSET CodecPaths :
       /\ data \in [D -> ByteStrings]
       /\ extra_attrs \in [X -> ByteStrings]
       /\ lookup_map = [k \in {ROOT} \cup D \cup X |-> IF k = ROOT THEN FOLDERS ELSE FILES]
  /\ attrs = [k \in DOMAIN lookup_map |->
                IF k = ROOT THEN mkfs.attrs[ROOT]
                ELSE [st_mode |-> ior(S_IFREG, FSDATA_MODE), st_nlink |-> 1,
                      st_size |-> Len(Get(data, k)), st_ctime |-> Time,
                      st_mtime |-> Time, st_atime |-> Time]]
  /\ fd = 0
  /\ fsdata_is = {}
  /\ last = [op |-> "init", err |-> "ok", path |-> <<>>, path2 |-> <<>>, n |-> 0,
             offset |-> 0, buf |-> <<>>, ret_int |-> 0, ret_bytes |-> <<>>,
             ret_names |-> {}]
  /\ nops = 0

(* the snapshot is encoded and the stores are taken from its decoding      *)
Load ==
  /\ last.op = "init"
  /\ LET file_system == load_from_json_file(obj_out(Self))
     IN  /\ attrs' = file_system.ATTRS
         /\ extra_attrs' = file_system.EXTRAATTRS
         /\ data' = file_system.DATA
         /\ lookup_map' = [k \in DOMAIN file_system.LOOKUPMAP |->
                             file_system.LOOKUPMAP[k].ENTITYTYPE]
  /\ last' = [last EXCEPT !.op = "load"]
  /\ nops' = nops + 1
  /\ UNCHANGED <<fd, fsdata_is>>

NextCodec == Load

SpecCodec == InitCodec /\ [][NextCodec]_vars

(* ---------------------------- properties ------------------------------ *)
(* the canonical path with its final segment removed                       *)
Parent(p) == dirname(p)

IsCanonical(p) == process_output(p) = p

(* x lies strictly below the directory d: d + SEP + rest, anything but the *)
(* root itself when d is the root                                          *)
IsDescendant(x, d) ==
  IF d = ROOT THEN x # ROOT
  ELSE Len(x) > Len(d) + 1 /\ SubSeq(x, 1, Len(d) + 1) = d \o <<SEP>>

IsFile(p) == Has(attrs, p) /\ Get_type(lookup_map, p) = FILES

IsFolder(p) == Has(attrs, p) /\ Get_type(lookup_map, p) = FOLDERS

(* C1: after any sequence of operations the paths of AttributeStore are    *)
(* exactly the paths of EntityTypeIndex.                                   *)
C1_SameKeys == DOMAIN attrs = DOMAIN lookup_map

(* C2: wherever a path has both content and an attribute record with a     *)
(* size, the size is the byte length of the content.                       *)
C2_SizeIsLength ==
  \A p \in (DOMAIN data) \cap (DOMAIN attrs) :
    "st_size" \in DOMAIN attrs[p] => attrs[p].st_size = Len(data[p])

(* C3: the root path is always present in AttributeStore and classified    *)
(* Folder in EntityTypeIndex.                                              *)
C3_RootStays == Has(attrs, ROOT) /\ Get_type(lookup_map, ROOT) = FOLDERS

(* C4: every non-root canonical path of AttributeStore has its parent      *)
(* present and classified Folder.                                          *)
C4_ParentIsFolder ==
  \A p \in DOMAIN attrs : (IsCanonical(p) /\ p # ROOT) => IsFolder(Parent(p))

(* C5: every key of DataStore is present in AttributeStore and classified  *)
(* File.                                                                   *)
C5_DataOnlyForFiles == \A p \in DOMAIN data : IsFile(p)

(* C6: on an existing path, a write at an offset within the content        *)
(* returns the length of the data, and reading that many bytes back at     *)
(* that offset returns the data.                                           *)
C6_WriteThenRead ==
  \A p \in Paths, b \in Bufs, o \in Offsets :
    (Has(attrs, process_output(p)) /\ o <= Len(Get(data, process_output(p)))) =>
      LET w == write(Self, p, b, o)
      IN  /\ w.err = "ok"
          /\ w.ret = Len(b)
          /\ read(w.self, p, Len(b), o).ret = b

(* a write past the start of existing content has just returned, and the   *)
(* bytes read back at its offset are the bytes written                     *)
C6_Witness ==
  /\ last.op = "write"
  /\ last.err = "ok"
  /\ last.offset > 0
  /\ IsFile(process_output(last.path))
  /\ last.ret_int = Len(last.buf)
  /\ read(Self, last.path, Len(last.buf), last.offset).ret = last.buf

(* C7: a write leaves every old byte before its offset and every old byte  *)
(* at or after its end as it was.                                          *)
C7_WriteKeepsTheRest ==
  [][(last'.op = "write" /\ last'.err = "ok" /\ IsFile(process_output(last'.path))) =>
       LET p == process_output(last'.path)
           b == last'.buf
           o == last'.offset
           old == Get(data, p)
           new == data'[p]
       IN  \A i \in 1..Len(old) :
             (i <= o \/ i > o + Len(b)) => (i <= Len(new) /\ new[i] = old[i])]_vars

(* C8: listing a directory returns '.', '..' and exactly the existing      *)
(* paths strictly below it.                                                *)
C8_ListIsDescendants ==
  \A d \in Paths :
    IsFolder(process_output(d)) =>
      readdir(Self, d).ret =
        {<<".">>, <<".", ".">>} \cup
        {x \in {process_output(k) : k \in DOMAIN attrs} : IsDescendant(x, process_output(d))}

(* C9: renaming a file that was created and then written, to an absent     *)
(* path, leaves nothing under the old path and the attribute record, the   *)
(* content and the extended attributes under the new one.                  *)
C9_RenameMovesAll ==
  (last.op = "write" /\ last.err = "ok" /\ IsFile(process_output(last.path))
     /\ process_output(last.path) # FSDATA) =>
    \A new0 \in Paths :
      LET old == process_output(last.path)
          new == process_output(new0)
          r == rename(Self, last.path, new0).self
      IN  ~Has(attrs, new) =>
            /\ ~Has(r.attrs, old) /\ ~Has(r.data, old) /\ ~Has(r.extra_attrs, old)
            /\ Has(r.attrs, new) /\ r.attrs[new] = attrs[old]
            /\ Has(r.data, new) /\ r.data[new] = data[old]
            /\ Get(r.extra_attrs, new) = Get(extra_attrs, old)

(* C10: making a directory under an existing folder adds one to the link   *)
(* count of that folder and changes no other link count.                   *)
C10_MkdirLinksParent ==
  [][LET p == process_output(last'.path)
     IN  (last'.op = "mkdir" /\ ~Has(attrs, p) /\ IsFolder(Parent(p))) =>
           /\ attrs'[Parent(p)].st_nlink = attrs[Parent(p)].st_nlink + 1
           /\ \A q \in (DOMAIN attrs) \ {Parent(p)} :
                Has(attrs', q) /\ attrs'[q].st_nlink = attrs[q].st_nlink]_vars

(* the four stores are the same before and after a step                    *)
StoresUnchanged ==
  /\ attrs' = attrs /\ data' = data /\ extra_attrs' = extra_attrs /\ lookup_map' = lookup_map

(* p is a key of none of the four stores of s                              *)
Gone(s, p) ==
  /\ ~Has(s.attrs, p) /\ ~Has(s.data, p) /\ ~Has(s.extra_attrs, p) /\ ~Has(s.lookup_map, p)

(* C11: removing an existing directory completes, removes it from all four *)
(* stores and takes one from the link count of its parent.                 *)
C11_RmdirRemoves ==
  [][LET p == process_output(last'.path)
     IN  (last'.op = "rmdir" /\ p # ROOT /\ IsFolder(p) /\ IsFolder(Parent(p))) =>
           /\ last'.err = "ok"
           /\ Gone(Self', p)
           /\ Has(attrs', Parent(p))
           /\ attrs'[Parent(p)].st_nlink = attrs[Parent(p)].st_nlink - 1]_vars

(* C12: for every path present in AttributeStore, unlink and then          *)
(* getAttributes of it fails with NotFound.                                *)
C12_UnlinkThenGetattr ==
  [][(last'.op = "unlink" /\ Has(attrs, process_output(last'.path))) =>
       getattr(Self', last'.path).err = "ENOENT"]_vars

(* C13: decoding the encoding of a snapshot without an export-path entry   *)
(* gives back all four stores, DATA and EXTRAATTRS as the original bytes.  *)
C13_RoundTrip == [][last'.op = "load" => StoresUnchanged]_vars

C15_CreateExisting ==
  [][(last'.op = "create" /\ Has(attrs, process_output(last'.path))) =>
       /\ last'.err = "EEXIST"
       /\ StoresUnchanged
       /\ fd' = fd]_vars

(* C16: in every reachable state, rename of an absent old path ends in      *)
(* ENOENT, rename of a present old path onto a present new path ends in    *)
(* EEXIST, and both leave the four stores as they were.                    *)
C16_RenameFails ==
  \A o \in Paths, n \in Paths :
    LET r == rename(Self, o, n)
        same == /\ r.self.attrs = attrs /\ r.self.data = data
                /\ r.self.extra_attrs = extra_attrs /\ r.self.lookup_map = lookup_map
    IN  /\ ~Has(attrs, process_output(o)) => (r.err = "ENOENT" /\ same)
        /\ (Has(attrs, process_output(o)) /\ Has(attrs, process_output(n))) =>
             (r.err = "EEXIST" /\ same)

(* a rename of a present path onto another present path has been refused,  *)
(* and one of an absent path too                                           *)
C16_Witness ==
  /\ last.op = "rename" /\ last.err = "EEXIST"
  /\ process_output(last.path) # process_output(last.path2)
  /\ \E o \in Paths : rename(Self, o, <<"/", "a">>).err = "ENOENT"

(* C17: the handle counter never decreases, whatever the call and whether   *)
(* it completes or not, and an open or create that completes returns the   *)
(* new value of the counter, which is above the old one: every identifier  *)
(* returned is above all those returned before.                            *)
C17_HandlesIncrease ==
  [][/\ fd' >= fd
     /\ (last'.op \in {"open", "create"} /\ last'.err = "ok") =>
          (last'.ret_int = fd' /\ fd' > fd)]_vars

(* a handle has been returned by open after another call returned one      *)
C17_Witness == last.op = "open" /\ last.err = "ok" /\ last.ret_int = 3

(* C18: after unlink of a file that create made, whether unlink returns or *)
(* raises, the path is a key of none of the four stores.                   *)
C18_UnlinkIsAtomic ==
  [][LET p == process_output(last'.path)
     IN  (last'.op = "unlink" /\ IsFile(p) /\ Has(data, p)) => Gone(Self', p)]_vars

(* C19: every key of AttributeStore and of EntityTypeIndex is canonical:   *)
(* it has no leading and no trailing separator.                            *)
C19_KeysCanonical == \A k \in (DOMAIN attrs) \cup (DOMAIN lookup_map) : IsCanonical(k)

(* C20: read on the freshly created filesystem leaves the four stores as   *)
(* they were, and returns empty bytes for a path without a content entry.  *)
C20_ReadIsPure ==
  [][last'.op = "read" =>
       /\ StoresUnchanged
       /\ ~Has(data, process_output(last'.path)) => last'.ret_bytes = <<>>]_vars

====
